---- MODULE Spec2Model ----
(***************************************************************************)
(* Model of Preprocessing/automate_Chardinal Martin Butarbutar.py:         *)
(* preprocess_transaction_data (the cleaning pipeline) and the __main__    *)
(* block that calls it.  A state is one process running the script: the    *)
(* file system it sees, the arguments it was given, the position in the    *)
(* pipeline, the working DataFrame and what was printed.                   *)
(***************************************************************************)
EXTENDS Integers, Sequences, FiniteSets, TLC

VARIABLES
    source,     \* the file at input_path: [exists, kind, cols, rows]
    args,       \* [output_path, verbose] as parsed by parse_args
    pc,         \* position of the process in the script
    df,         \* the working DataFrame: [cols, rows], rows carry df.index
    dirs,       \* directories that exist
    files,      \* output files: path -> NoFile or the table written there
    stdout,     \* lines printed by this process
    stages,     \* pipeline stages entered by this call, in order
    raised,     \* the exception propagating out of the pipeline, or NoError
    exitStatus, \* <<>> while the process runs, <<status>> once it has ended
    prev        \* summary of the previous run of the script (valid = FALSE: none)

vars == <<source, args, pc, df, dirs, files, stdout, stages, raised, exitStatus, prev>>

(***************************************************************************)
(* Bounds of the model.                                                    *)
(***************************************************************************)
MaxRows == 3
MaxRowsTwice == 2

NaN == "<NaN>"
NaT == "<NaT>"
Unparsable == "<unparsable>"
NoError == [type |-> "", msg |-> <<"", "">>]
NoFile == [present |-> FALSE, cols |-> <<>>, rows |-> <<>>]
EmptyDf == [cols |-> <<>>, rows |-> <<>>]
NoPrev == [valid |-> FALSE, output_path |-> "", verbose |-> FALSE,
           outcome |-> NoError, stages |-> <<>>, written |-> NoFile]

(***************************************************************************)
(* Small helpers on sequences.                                             *)
(***************************************************************************)
Range(s) == {s[i] : i \in 1..Len(s)}

\* The subsequence of s at the positions in P, in order.
KeepPositions(s, P) ==
    LET F[n \in 0..Len(s)] ==
            IF n = 0 THEN <<>>
            ELSE IF n \in P THEN Append(F[n - 1], s[n]) ELSE F[n - 1]
    IN  F[Len(s)]

SeqsUpTo(S, n) == UNION {[1..k -> S] : k \in 0..n}

(***************************************************************************)
(* The inputs: column names, the cell texts a column may hold, schemas.    *)
(***************************************************************************)
InputPath == "raw.csv"

CellTexts(col) ==
    CASE col = "TransactionDate"    -> {"", "2024-01-05", "NaT", "2024-13-45"}
      [] col = "DiscountApplied(%)" -> {"", "5", "10"}
      [] col = "DiscountApplied"    -> {"0", "5"}
      [] col = "StoreLocation"      -> {"", "NY"}
      [] col = "ProductID"          -> {"", "P1"}
      [] col = "PaymentMethod"      -> {"", "Cash", "Card"}
      [] col = "ProductCategory"    -> {"", "Books", "Toys"}
      [] OTHER                      -> {"1", "2"}

Schemas ==
    { <<"TransactionDate", "StoreLocation">>,
      <<"PaymentMethod", "ProductCategory">>,
      <<"DiscountApplied(%)", "ProductID">>,
      <<"StoreLocation", "Quantity", "ProductID">>,
      <<"DiscountApplied(%)", "DiscountApplied">>,
      <<"ProductID", "PaymentMethod">>,
      <<"ProductID", "DiscountApplied(%)">>,
      <<"Quantity">> }

SchemasTwice ==
    { <<"TransactionDate", "StoreLocation">>,
      <<"PaymentMethod", "ProductCategory">> }

RawRows(cols) ==
    {r \in [1..Len(cols) -> UNION {CellTexts(cols[j]) : j \in 1..Len(cols)}] :
        \A j \in 1..Len(cols) : r[j] \in CellTexts(cols[j])}

CsvFiles(schemas, n) ==
    UNION {{[exists |-> TRUE, kind |-> "csv", cols |-> c, rows |-> r] :
                r \in SeqsUpTo(RawRows(c), n)} : c \in schemas}

\* A path with no file, and a file pandas cannot parse (empty or binary).
MissingFile == [exists |-> FALSE, kind |-> "none", cols |-> <<>>, rows |-> <<>>]
GarbageFile == [exists |-> TRUE, kind |-> "garbage", cols |-> <<>>, rows |-> <<>>]

Sources(schemas, n) == {MissingFile, GarbageFile} \cup CsvFiles(schemas, n)

(***************************************************************************)
(* The file system the output goes to.  "locked" is a directory the        *)
(* process may not write in, so a file there cannot be written and a       *)
(* directory below it cannot be created.                                   *)
(***************************************************************************)
OutputPaths == {"out/clean.csv", "locked/clean.csv", "locked/sub/clean.csv"}
OutputPathsTwice == {"out/clean.csv", "out2/clean.csv", "locked/clean.csv"}

Parent(path) ==
    CASE path = "out/clean.csv"        -> "out"
      [] path = "out2/clean.csv"       -> "out2"
      [] path = "locked/clean.csv"     -> "locked"
      [] path = "locked/sub/clean.csv" -> "locked/sub"
      [] OTHER                         -> "."

AllPaths == OutputPaths \cup OutputPathsTwice
InitDirs == {".", "locked"}
StaleTable == [present |-> TRUE, cols |-> <<"old">>, rows |-> << <<"x">> >>]
InitFiles == [p \in AllPaths |-> IF p = "locked/clean.csv" THEN StaleTable ELSE NoFile]

MkdirAllowed(d) == d # "locked/sub"
WriteAllowed(path) == Parent(path) # "locked"

(***************************************************************************)
(* pandas / scikit-learn operations, as the pipeline uses them.            *)
(***************************************************************************)
\* pd.read_csv: the default na_values turn an empty field into NaN.
NaStrings == {"", "NA", "NaN", "nan", "null", "NULL", "N/A", "n/a", "None"}
ReadCell(text) == IF text \in NaStrings THEN NaN ELSE text

\* pd.read_csv(input_path): the header gives the columns, the RangeIndex
\* 0..n-1 labels the rows.
ReadCsv(file) ==
    [cols |-> file.cols,
     rows |-> [i \in 1..Len(file.rows) |->
                 [idx  |-> i - 1,
                  vals |-> [j \in 1..Len(file.cols) |-> ReadCell(file.rows[i][j])]]]]

\* df.duplicated(): positions of the rows equal to an earlier row; pandas
\* treats two NaN in the same column as equal here.
Duplicated(rows) ==
    {i \in 1..Len(rows) : \E j \in 1..(i - 1) : rows[j].vals = rows[i].vals}

\* drop_duplicates with keep='last'.
DropDuplicatesKeepLast(rows) ==
    KeepPositions(rows, {i \in 1..Len(rows) :
                            ~\E j \in (i + 1)..Len(rows) : rows[j].vals = rows[i].vals})

\* df.drop_duplicates(inplace=True): keep='first', all columns.
DropDuplicates(rows) == KeepPositions(rows, (1..Len(rows)) \ Duplicated(rows))

IsNull(v) == v \in {NaN, NaT}

\* df.isnull().sum(): the number of missing cells of each column.
NullCounts(d) ==
    [j \in 1..Len(d.cols) |-> Cardinality({i \in 1..Len(d.rows) : IsNull(d.rows[i].vals[j])})]

\* dropna with how='all'.
DropNaAll(rows) ==
    KeepPositions(rows, {i \in 1..Len(rows) :
                            \E j \in 1..Len(rows[i].vals) : ~IsNull(rows[i].vals[j])})

\* df.dropna(inplace=True): how='any', all columns.
DropNa(rows) ==
    KeepPositions(rows, {i \in 1..Len(rows) :
                            \A j \in 1..Len(rows[i].vals) : ~IsNull(rows[i].vals[j])})

\* pd.to_datetime with errors='coerce'.
TimestampOfCoerce(v) == IF v = "2024-01-05" THEN "Timestamp('2024-01-05 00:00:00')" ELSE NaT

\* pd.to_datetime with errors='raise' (the default): a date text becomes a
\* Timestamp, the text "NaT" (and a missing value) becomes NaT, anything else
\* raises.
TimestampOf(v) ==
    CASE v = "2024-01-05" -> "Timestamp('2024-01-05 00:00:00')"
      [] v \in {"NaT", NaN, NaT} -> NaT
      [] OTHER -> Unparsable

DateParses(v) == TimestampOf(v) # Unparsable

ColumnIndex(cols, name) == CHOOSE j \in 1..Len(cols) : cols[j] = name

ToDatetimeFails(d) ==
    /\ "TransactionDate" \in Range(d.cols)
    /\ \E i \in 1..Len(d.rows) :
          ~DateParses(d.rows[i].vals[ColumnIndex(d.cols, "TransactionDate")])

ToDatetime(d) ==
    IF "TransactionDate" \in Range(d.cols)
    THEN LET c == ColumnIndex(d.cols, "TransactionDate")
         IN  [d EXCEPT !.rows = [i \in 1..Len(d.rows) |->
                 [d.rows[i] EXCEPT !.vals[c] = TimestampOf(d.rows[i].vals[c])]]]
    ELSE d

\* A rename map whose key does not match the column.
RenameColumnNoMatch(name) == name

\* df.rename(columns={'DiscountApplied(%)': 'DiscountApplied'}, inplace=True)
RenameColumn(name) == IF name = "DiscountApplied(%)" THEN "DiscountApplied" ELSE name
Rename(d) == [d EXCEPT !.cols = [j \in 1..Len(d.cols) |-> RenameColumn(d.cols[j])]]

\* cols_to_drop without ProductID.
ColsToDropStoreOnly == {"StoreLocation"}

\* cols_to_drop, and the drop of those that exist.
ColsToDrop == {"StoreLocation", "ProductID"}
DropColumns(d) ==
    LET keep == {j \in 1..Len(d.cols) : d.cols[j] \notin ColsToDrop}
    IN  [cols |-> KeepPositions(d.cols, keep),
         rows |-> [i \in 1..Len(d.rows) |->
                     [d.rows[i] EXCEPT !.vals = KeepPositions(d.rows[i].vals, keep)]]]

\* The order of Python's sorted() on the labels of the model.
SortedLabels == <<"Books", "Card", "Cash", "Toys">>
LabelPos(l) == CHOOSE k \in 1..Len(SortedLabels) : SortedLabels[k] = l
LabelLess(a, b) == LabelPos(a) < LabelPos(b)

\* An encoder fitted on every label of the data set, not on the column.
LabelCodeGlobal(classes, l) == LabelPos(l) - 1

\* LabelEncoder().fit_transform: classes_ are the sorted distinct labels,
\* a label's code is its position in classes_ (from 0).
LabelCode(classes, l) == Cardinality({c \in classes : LabelLess(c, l)})

FitTransform(d, name) ==
    IF name \in Range(d.cols)
    THEN LET c == ColumnIndex(d.cols, name)
             classes == {d.rows[i].vals[c] : i \in 1..Len(d.rows)}
         IN  [d EXCEPT !.rows = [i \in 1..Len(d.rows) |->
                 [d.rows[i] EXCEPT !.vals[c] = LabelCode(classes, d.rows[i].vals[c])]]]
    ELSE d

Encode(d) == FitTransform(FitTransform(d, "PaymentMethod"), "ProductCategory")

\* to_csv with mode='a'.
ToCsvAppend(old, d) ==
    [present |-> TRUE, cols |-> d.cols,
     rows |-> old.rows \o [i \in 1..Len(d.rows) |-> d.rows[i].vals]]

\* df.to_csv(output_path, index=False): header and rows, without df.index;
\* mode='w' replaces whatever the path held.
ToCsv(old, d) ==
    [present |-> TRUE, cols |-> d.cols,
     rows |-> [i \in 1..Len(d.rows) |-> d.rows[i].vals]]


(***************************************************************************)
(* The script.                                                             *)
(***************************************************************************)
\* The statements of preprocess_transaction_data in program order, then the
\* return to the caller.
Program ==
    <<"check", "load", "dedup", "dropna", "todatetime", "rename", "dropcols",
      "encode", "mkdir", "tocsv", "return">>

NextPc(p) == Program[(CHOOSE k \in 1..Len(Program) : Program[k] = p) + 1]

Line(kind, text, n) == [kind |-> kind, text |-> text, n |-> n]

\* print(...) under "if verbose:".
Report(out, verbose, line) == IF verbose THEN Append(out, line) ELSE out

Error(type, text, arg) == [type |-> type, msg |-> <<text, arg>>]

\* raise: the exception leaves the function, nothing after it runs.
Raise(e) ==
    /\ pc' = "except"
    /\ raised' = e

\* The existence check left out.
InputMissingUnchecked(file) == FALSE

InputMissing(file) == ~file.exists

\* drop_duplicates indented under "if verbose:".
DedupStageUnderVerbose(d, verbose) ==
    IF verbose THEN [d EXCEPT !.rows = DropDuplicates(d.rows)] ELSE d

DedupStage(d, verbose) == [d EXCEPT !.rows = DropDuplicates(d.rows)]
DropNaStage(d, verbose) == [d EXCEPT !.rows = DropNa(d.rows)]

\* A handler that ends with sys.exit(1).
MainExitStatusFailing(e) == IF e = NoError THEN 0 ELSE 1

\* The status the interpreter exits with once the __main__ block has run.
MainExitStatus(e) == 0

\* if not input_path.exists(): raise FileNotFoundError(...)
CheckInput ==
    /\ pc = "check"
    /\ IF InputMissing(source)
       THEN Raise(Error("FileNotFoundError", "File input tidak ditemukan: ", InputPath))
       ELSE pc' = NextPc(pc) /\ UNCHANGED raised
    /\ UNCHANGED <<source, args, df, dirs, files, stdout, stages, exitStatus, prev>>

\* df = pd.read_csv(input_path)
Load ==
    /\ pc = "load"
    /\ stages' = Append(stages, "load")
    /\ stdout' = Report(stdout, args.verbose,
                        Line("read", <<" Membaca dataset dari: ", InputPath>>, <<>>))
    /\ IF ~source.exists
       THEN /\ Raise(Error("FileNotFoundError", "No such file or directory: ", InputPath))
            /\ UNCHANGED df
       ELSE IF source.kind # "csv"
       THEN /\ Raise(Error("ParserError", "Error tokenizing data: ", InputPath))
            /\ UNCHANGED df
       ELSE /\ df' = ReadCsv(source)
            /\ pc' = NextPc(pc)
            /\ UNCHANGED raised
    /\ UNCHANGED <<source, args, dirs, files, exitStatus, prev>>

\* df.drop_duplicates(inplace=True)
Dedup ==
    /\ pc = "dedup"
    /\ stages' = Append(stages, "dedup")
    /\ stdout' = Report(stdout, args.verbose,
                        Line("dups", <<"Jumlah duplikat sebelum dihapus: ", "">>,
                             <<Cardinality(Duplicated(df.rows))>>))
    /\ df' = DedupStage(df, args.verbose)
    /\ pc' = NextPc(pc)
    /\ UNCHANGED <<source, args, dirs, files, raised, exitStatus, prev>>

\* df.dropna(inplace=True)
Dropna ==
    /\ pc = "dropna"
    /\ stages' = Append(stages, "dropna")
    /\ stdout' = Report(stdout, args.verbose,
                        Line("missing", <<"Jumlah missing values sebelum dihapus:", "">>,
                             NullCounts(df)))
    /\ df' = DropNaStage(df, args.verbose)
    /\ pc' = NextPc(pc)
    /\ UNCHANGED <<source, args, dirs, files, raised, exitStatus, prev>>

\* df['TransactionDate'] = pd.to_datetime(df['TransactionDate'])
ConvertDate ==
    /\ pc = "todatetime"
    /\ stages' = Append(stages, "todatetime")
    /\ IF ToDatetimeFails(df)
       THEN /\ Raise(Error("ValueError", "Unknown datetime string format: ", "TransactionDate"))
            /\ UNCHANGED df
       ELSE /\ df' = ToDatetime(df)
            /\ pc' = NextPc(pc)
            /\ UNCHANGED raised
    /\ UNCHANGED <<source, args, dirs, files, stdout, exitStatus, prev>>

\* df.rename(columns={...}, inplace=True)
RenameStage ==
    /\ pc = "rename"
    /\ stages' = Append(stages, "rename")
    /\ df' = Rename(df)
    /\ pc' = NextPc(pc)
    /\ UNCHANGED <<source, args, dirs, files, stdout, raised, exitStatus, prev>>

\* df.drop(columns=existing_cols_to_drop, inplace=True)
DropCols ==
    /\ pc = "dropcols"
    /\ stages' = Append(stages, "dropcols")
    /\ df' = DropColumns(df)
    /\ pc' = NextPc(pc)
    /\ UNCHANGED <<source, args, dirs, files, stdout, raised, exitStatus, prev>>

\* the two LabelEncoder blocks
EncodeStage ==
    /\ pc = "encode"
    /\ stages' = Append(stages, "encode")
    /\ df' = Encode(df)
    /\ pc' = NextPc(pc)
    /\ UNCHANGED <<source, args, dirs, files, stdout, raised, exitStatus, prev>>

\* output_path.parent.mkdir(parents=True, exist_ok=True)
Mkdir ==
    /\ pc = "mkdir"
    /\ stages' = Append(stages, "persist")
    /\ LET d == Parent(args.output_path)
       IN  IF d \in dirs
           THEN pc' = NextPc(pc) /\ UNCHANGED <<dirs, raised>>
           ELSE IF MkdirAllowed(d)
           THEN pc' = NextPc(pc) /\ dirs' = dirs \cup {d} /\ UNCHANGED raised
           ELSE Raise(Error("PermissionError", "Permission denied: ", d)) /\ UNCHANGED dirs
    /\ UNCHANGED <<source, args, df, files, stdout, exitStatus, prev>>

\* df.to_csv(output_path, index=False)
WriteCsv ==
    /\ pc = "tocsv"
    /\ IF WriteAllowed(args.output_path)
       THEN /\ files' = [files EXCEPT ![args.output_path] = ToCsv(@, df)]
            /\ pc' = NextPc(pc)
            /\ UNCHANGED raised
       ELSE /\ Raise(Error("PermissionError", "Permission denied: ", args.output_path))
            /\ UNCHANGED files
    /\ UNCHANGED <<source, args, df, dirs, stdout, stages, exitStatus, prev>>

\* __main__, the try block after the call returned: print the confirmation.
MainSuccess ==
    /\ pc = "return"
    /\ stdout' = Append(stdout, Line("success",
                    <<"Preprocessing selesai. Dataset tersimpan di: ", args.output_path>>, <<>>))
    /\ exitStatus' = <<MainExitStatus(raised)>>
    /\ pc' = "exit"
    /\ UNCHANGED <<source, args, df, dirs, files, stages, raised, prev>>

\* __main__, except Exception as e: print the failure line.
MainExcept ==
    /\ pc = "except"
    /\ stdout' = Append(stdout, Line("failure", raised.msg, <<>>))
    /\ exitStatus' = <<MainExitStatus(raised)>>
    /\ pc' = "exit"
    /\ UNCHANGED <<source, args, df, dirs, files, stages, raised, prev>>

\* The script is run again, as a new process, on the same input file.
RunAgain ==
    /\ pc = "exit"
    /\ prev' = [valid |-> TRUE, output_path |-> args.output_path,
                verbose |-> args.verbose, outcome |-> raised, stages |-> stages,
                written |-> files[args.output_path]]
    /\ \E o \in OutputPathsTwice, v \in BOOLEAN :
          args' = [output_path |-> o, verbose |-> v]
    /\ pc' = "check"
    /\ df' = EmptyDf
    /\ stdout' = <<>>
    /\ stages' = <<>>
    /\ raised' = NoError
    /\ exitStatus' = <<>>
    /\ UNCHANGED <<source, dirs, files>>

Start(sources, paths) ==
    /\ source \in sources
    /\ args \in [output_path : paths, verbose : BOOLEAN]
    /\ pc = "check"
    /\ df = EmptyDf
    /\ dirs = InitDirs
    /\ files = InitFiles
    /\ stdout = <<>>
    /\ stages = <<>>
    /\ raised = NoError
    /\ exitStatus = <<>>
    /\ prev = NoPrev

Init == Start(Sources(Schemas, MaxRows), OutputPaths)
InitTwice == Start(Sources(SchemasTwice, MaxRowsTwice), OutputPathsTwice)

Next ==
    \/ CheckInput
    \/ Load
    \/ Dedup
    \/ Dropna
    \/ ConvertDate
    \/ RenameStage
    \/ DropCols
    \/ EncodeStage
    \/ Mkdir
    \/ WriteCsv
    \/ MainSuccess
    \/ MainExcept

NextTwice == Next \/ RunAgain

Spec == Init /\ [][Next]_vars
SpecTwice == InitTwice /\ [][NextTwice]_vars

(***************************************************************************)
(* Properties.  They are stated on the input file as text and on the file  *)
(* written, not through the operators above.                               *)
(***************************************************************************)
Out == files[args.output_path]
Written == pc \in {"return", "exit"} /\ raised = NoError
Entered(stage) == stage \in Range(stages)

\* An empty field is the missing value of the input.
MissingText(t) == t = ""
RowComplete(r) == \A j \in 1..Len(r) : ~MissingText(r[j])
FirstOccurrence(i) == ~\E j \in 1..(i - 1) : source.rows[j] = source.rows[i]
\* The input row (position in the file) the p-th row of df comes from.
Origin(p) == df.rows[p].idx + 1
Origins == {Origin(p) : p \in 1..Len(df.rows)}
InputHas(name) == name \in Range(source.cols)
InputCol(name) == CHOOSE j \in 1..Len(source.cols) : source.cols[j] = name
Removed == {"StoreLocation", "ProductID"}
\* Where the input's j-th column stands in the output, once the removed
\* columns before it are gone.
OutPos(j) == j - Cardinality({k \in 1..(j - 1) : source.cols[k] \in Removed})
KeptCols == SelectSeq(source.cols, LAMBDA c : c \notin Removed)
PipelineOrder ==
    <<"load", "dedup", "dropna", "todatetime", "rename", "dropcols", "encode", "persist">>
IsPrefix(a, b) == Len(a) <= Len(b) /\ \A k \in 1..Len(a) : a[k] = b[k]

\* C1: once the Deduplicate stage has run, every row of the table is the
\* first occurrence of its content in the input, in input order; right after
\* the stage the table holds exactly the first occurrences, unedited; and the
\* table written has one row per surviving row, no two of which were equal on
\* all columns of the input.
C1_DedupKeepsFirstOccurrences ==
    Entered("dedup") =>
        /\ \A p \in 1..Len(df.rows) : Origin(p) \in 1..Len(source.rows) /\ FirstOccurrence(Origin(p))
        /\ \A p, q \in 1..Len(df.rows) : p < q => Origin(p) < Origin(q)
        /\ pc = "dropna" =>
              /\ Origins = {i \in 1..Len(source.rows) : FirstOccurrence(i)}
              /\ \A p \in 1..Len(df.rows) : \A j \in 1..Len(source.cols) :
                    LET t == source.rows[Origin(p)][j]
                    IN  IF MissingText(t) THEN df.rows[p].vals[j] = NaN
                        ELSE df.rows[p].vals[j] = t
        /\ Written =>
              /\ Len(Out.rows) = Len(df.rows)
              /\ \A p, q \in 1..Len(Out.rows) :
                    p # q => source.rows[Origin(p)] # source.rows[Origin(q)]

C1_Witness ==
    /\ pc = "exit" /\ raised = NoError
    /\ Len(source.rows) = 3
    /\ source.rows[1] = source.rows[3]
    /\ source.rows[1] # source.rows[2]
    /\ Len(Out.rows) = 2

\* C2: once the null-removal stage has run, every row of the table comes
\* from an input row with no missing value in any input column; right after
\* the stage the table holds exactly the complete first occurrences; so a
\* row of the written table never comes from an input row with a missing
\* value, also when the value was missing in a column that is dropped later.
C2_OnlyCompleteRowsSurvive ==
    Entered("dropna") =>
        /\ \A p \in 1..Len(df.rows) : RowComplete(source.rows[Origin(p)])
        /\ pc = "todatetime" =>
              Origins = {i \in 1..Len(source.rows) :
                            FirstOccurrence(i) /\ RowComplete(source.rows[i])}
        /\ Written =>
              /\ Len(Out.rows) = Len(df.rows)
              /\ Origins = {i \in 1..Len(source.rows) :
                              FirstOccurrence(i) /\ RowComplete(source.rows[i])}

C2_Witness ==
    /\ pc = "exit" /\ raised = NoError
    /\ source.cols = <<"StoreLocation", "Quantity", "ProductID">>
    /\ Len(source.rows) = 2
    /\ source.rows[1] = <<"", "1", "P1">>
    /\ source.rows[2] = <<"NY", "2", "P1">>
    /\ Out.rows = << <<"2">> >>

\* C3: in the written table each of PaymentMethod and ProductCategory that
\* the input has holds natural numbers, and label -> code is a bijection from
\* the labels of the surviving rows onto 0..k-1.
Encoded(name) ==
    /\ name \in Range(Out.cols)
    /\ LET cin    == InputCol(name)
           cout   == CHOOSE j \in 1..Len(Out.cols) : Out.cols[j] = name
           label(p) == source.rows[Origin(p)][cin]
           code(p)  == Out.rows[p][cout]
           labels == {label(p) : p \in 1..Len(Out.rows)}
           codes  == {code(p) : p \in 1..Len(Out.rows)}
       IN  /\ \A p \in 1..Len(Out.rows) : code(p) \in Nat
           /\ codes = 0..(Cardinality(labels) - 1)
           /\ \A p, q \in 1..Len(Out.rows) : (code(p) = code(q)) <=> (label(p) = label(q))

C3_EncodingIsDenseBijection ==
    Written =>
        /\ Len(Out.rows) = Len(df.rows)
        /\ \A name \in {"PaymentMethod", "ProductCategory"} :
              InputHas(name) => Encoded(name)

C3_Witness ==
    /\ pc = "exit" /\ raised = NoError
    /\ source.cols = <<"PaymentMethod", "ProductCategory">>
    /\ source.rows = << <<"Cash", "Toys">>, <<"Card", "">>, <<"Cash", "Books">> >>
    /\ Out.rows = << <<0, 1>>, <<0, 0>> >>

\* C4: when no file is at input_path the call raises the source-not-found
\* error naming the path before any stage is entered, and the file system
\* stays as it was: no directory created, no output file created or changed.
C4_MissingInputFailsFirst ==
    ~source.exists =>
        /\ pc \in {"check", "except", "exit"}
        /\ stages = <<>>
        /\ df = EmptyDf
        /\ dirs = InitDirs
        /\ files = InitFiles
        /\ pc # "check" =>
              /\ raised.type = "FileNotFoundError"
              /\ raised.msg = <<"File input tidak ditemukan: ", InputPath>>

C4_Witness ==
    /\ ~source.exists
    /\ pc = "exit"
    /\ args.output_path = "out/clean.csv"
    /\ "out" \notin dirs
    /\ ~Out.present

\* C5: if the input has DiscountApplied(%), the written table has no column
\* of that name, and the column standing where it stood is DiscountApplied
\* and holds, row for row, the value of the surviving input row; if the input
\* has no such column, the rename stage leaves the column names as loaded;
\* the rename stage never raises.
C5_DiscountRenamedInPlace ==
    /\ (pc = "except" /\ stages # <<>>) => stages[Len(stages)] # "rename"
    /\ (pc = "dropcols" /\ ~InputHas("DiscountApplied(%)")) => df.cols = source.cols
    /\ (Written /\ InputHas("DiscountApplied(%)")) =>
          LET c == OutPos(InputCol("DiscountApplied(%)"))
          IN  /\ "DiscountApplied(%)" \notin Range(Out.cols)
              /\ c \in 1..Len(Out.cols)
              /\ Out.cols[c] = "DiscountApplied"
              /\ Len(Out.rows) = Len(df.rows)
              /\ \A p \in 1..Len(Out.rows) :
                    Out.rows[p][c] = source.rows[Origin(p)][InputCol("DiscountApplied(%)")]

C5_Witness ==
    /\ pc = "exit" /\ raised = NoError
    /\ source.cols = <<"ProductID", "DiscountApplied(%)">>
    /\ source.rows = << <<"P1", "10">>, <<"", "5">>, <<"P1", "5">> >>
    /\ Out.cols = <<"DiscountApplied">>
    /\ Out.rows = << <<"10">>, <<"5">> >>

\* C6: the written table has neither StoreLocation nor ProductID, and its
\* columns are the input's other columns in input order, DiscountApplied(%)
\* under its new name and every other one under its own; the column removal
\* never raises, whichever of the two columns the input has.
C6_DropsStoreLocationAndProductID ==
    /\ (pc = "except" /\ stages # <<>>) => stages[Len(stages)] # "dropcols"
    /\ Written =>
          /\ Range(Out.cols) \cap Removed = {}
          /\ Len(Out.cols) = Len(KeptCols)
          /\ \A j \in 1..Len(KeptCols) :
                Out.cols[j] = IF KeptCols[j] = "DiscountApplied(%)"
                              THEN "DiscountApplied" ELSE KeptCols[j]
          /\ \A p \in 1..Len(Out.rows) : Len(Out.rows[p]) = Len(KeptCols)

C6_Witness ==
    /\ pc = "exit" /\ raised = NoError
    /\ source.cols = <<"StoreLocation", "Quantity", "ProductID">>
    /\ Out.cols = <<"Quantity">>
    /\ Len(Out.rows) = 2

\* C7: two runs on the same input that both succeed and write to different
\* output paths leave the same table at both paths, whatever their verbose
\* flags.
C7_SameInputSameOutput ==
    (/\ prev.valid
     /\ pc = "exit"
     /\ raised = NoError
     /\ prev.outcome = NoError
     /\ prev.output_path # args.output_path) =>
        /\ Out.present
        /\ Out = prev.written
        /\ Out = files[prev.output_path]

C7_Witness ==
    /\ prev.valid
    /\ pc = "exit"
    /\ raised = NoError
    /\ prev.outcome = NoError
    /\ prev.output_path = "out/clean.csv"
    /\ args.output_path = "out2/clean.csv"
    /\ Len(Out.rows) = 2
    /\ Len(source.rows) = 2

\* C8: two runs on the same input and the same output path that differ only
\* in verbose enter the same stages, end with the same outcome and leave the
\* same table at the output path; a quiet run prints nothing but the final
\* line.
C8_VerboseChangesNothing ==
    /\ (pc = "exit" /\ ~args.verbose) => Len(stdout) = 1
    /\ (/\ prev.valid
        /\ pc = "exit"
        /\ prev.output_path = args.output_path
        /\ prev.verbose # args.verbose) =>
           /\ stages = prev.stages
           /\ raised = prev.outcome
           /\ Out = prev.written

C8_Witness ==
    /\ prev.valid
    /\ pc = "exit"
    /\ prev.output_path = args.output_path
    /\ prev.verbose /\ ~args.verbose
    /\ raised = NoError
    /\ Len(source.rows) = 2
    /\ source.rows[1] = source.rows[2]
    /\ Len(Out.rows) = 1

\* C9: when the process has ended its exit status is 0 whatever the pipeline
\* did; after a successful call exactly one confirmation line was printed, it
\* holds the output path, and no failure line was printed; after an exception
\* exactly one failure line was printed, it holds the exception's message,
\* and no confirmation was printed.  An exception never stays unhandled.
LinesOf(kind) == {k \in 1..Len(stdout) : stdout[k].kind = kind}

C9_MainHandlesEveryOutcome ==
    /\ pc = "except" => raised # NoError
    /\ pc = "exit" =>
          /\ exitStatus = <<0>>
          /\ IF raised = NoError
             THEN /\ Cardinality(LinesOf("success")) = 1
                  /\ LinesOf("failure") = {}
                  /\ stdout[Len(stdout)].kind = "success"
                  /\ stdout[Len(stdout)].text[2] = args.output_path
                  /\ Out.present
             ELSE /\ Cardinality(LinesOf("failure")) = 1
                  /\ LinesOf("success") = {}
                  /\ stdout[Len(stdout)].kind = "failure"
                  /\ stdout[Len(stdout)].text = raised.msg

C9_Witness ==
    /\ pc = "exit"
    /\ raised.type = "PermissionError"
    /\ args.verbose
    /\ args.output_path = "locked/clean.csv"
    /\ Len(stdout) = 4

\* C10: the stages are entered in the order load, dedup, dropna,
\* todatetime, rename, dropcols, encode, persist, each at most once; the
\* file system changes only in the persist stage, so a call that fails before
\* it leaves no directory and no output file behind; and a surviving row whose
\* TransactionDate is not a date makes the call fail in the todatetime stage.
BadDateSurvives ==
    /\ InputHas("TransactionDate")
    /\ \E i \in 1..Len(source.rows) :
          /\ RowComplete(source.rows[i])
          /\ source.rows[i][InputCol("TransactionDate")] \notin {"2024-01-05", "NaT"}

C10_StagesInOrderFailuresLeaveNothing ==
    /\ IsPrefix(stages, PipelineOrder)
    /\ ~Entered("persist") => (dirs = InitDirs /\ files = InitFiles)
    /\ raised # NoError => files = InitFiles
    /\ (source.exists /\ source.kind = "csv" /\ BadDateSurvives) =>
          /\ ~Entered("rename")
          /\ pc \in {"except", "exit"} =>
                /\ raised.type = "ValueError"
                /\ stages = <<"load", "dedup", "dropna", "todatetime">>

C10_Witness ==
    /\ pc = "exit"
    /\ raised.type = "ValueError"
    /\ stages = <<"load", "dedup", "dropna", "todatetime">>
    /\ args.output_path = "out/clean.csv"
    /\ "out" \notin dirs
    /\ ~Out.present
    /\ Len(source.rows) = 3

====
